---- MODULE Spec2Model ----
(***************************************************************************)
(* Habit tracker of klarity-me: the request handlers of                    *)
(* backend/app/api/api_v1/endpoints/habits.py over the module-level dict   *)
(* memory_db, and the Habit model of backend/app/models/habit.py.          *)
(* Identity ledger: the request handlers of                                *)
(* backend/app/api/api_v1/endpoints/identity_evolution_supabase.py over    *)
(* the module-level dict DEV_STORE and the Supabase tables.                *)
(***************************************************************************)
EXTENDS Integers, Sequences, FiniteSets, TLC

(* ------------------------------ bounds --------------------------------- *)
\* Spec: the short, wide runs (days, completed and missed check-ins, deletion).
MaxDay      == 3      \* calendar days date.today() runs through
MaxHabits   == 1      \* habits ever created (uuid4 never repeats an id)
MaxCheckIns == 3      \* check-in records stored
\* SpecGrad: the long, narrow runs that reach the graduation thresholds.
MaxGradCheckIns == 51

(* ------------------------- program constants --------------------------- *)
DailyRequiredDays     == 40
WeeklyRequiredDays    == 90
CustomHighDays        == 50
CustomMidDays         == 60
CustomLowDays         == 90
CustomHighTarget      == 5
CustomMidTarget       == 3
ManualMinDays         == 21
ConsistencyNum        == 8     \* 0.8 as ConsistencyNum / ConsistencyDen
ConsistencyDen        == 10
MinTargetDays         == 1
MaxTargetDays         == 7

(* --------------------------- Python values ----------------------------- *)
\* Temporal values are tagged by their Python type, so that == between a
\* datetime.date and a str is what Python makes it: False.
\* "None" is the Python None of an Optional temporal field.
None            == [type |-> "None", of |-> "None", ord |-> 0]
Date(n)         == [type |-> "date", of |-> "date", ord |-> n]
DateTime(n)     == [type |-> "datetime", of |-> "datetime", ord |-> n]
\* date.isoformat() / datetime.isoformat(): a str
isoformat(x)    == [type |-> "str", of |-> x.type, ord |-> x.ord]
\* timedelta(days=1) subtracted from a date
MinusOneDay(d)  == [d EXCEPT !.ord = d.ord - 1]
\* Python's == on these values
PyEq(a, b)      == a = b

\* Python None of an Optional[str] / Optional[int] field
NoText          == "None"
NoTarget        == 0

user_id         == "user_123"
habits_key      == "habits_user_123"
checkins_key    == "checkins_user_123"

BECOMING        == "becoming"
I_AM            == "i_am"

DAILY           == "daily"
WEEKLY          == "weekly"
CUSTOM          == "custom"

(* ------------------------------ inputs --------------------------------- *)
FrequencyTypes  == {DAILY, WEEKLY, CUSTOM}
\* every FrequencyDetails the field constraints (ge=1, le=7, Optional) admit
AllFrequencies  == [type : FrequencyTypes,
                    target_days : {NoTarget} \cup (MinTargetDays..MaxTargetDays)]
\* the frequencies the wide runs create habits with
FewFrequencies  == {f \in AllFrequencies :
                       \/ f.type = DAILY /\ f.target_days = NoTarget
                       \/ f.type = CUSTOM /\ f.target_days = NoTarget}
Titles          == {"run"}
OptTexts        == {NoText}

(* ------------------------------- state --------------------------------- *)
VARIABLES
    today,        \* the day date.today() / datetime.now() fall on
    memory_db,    \* the dict: key -> list of dicts, for the habit keys present
                  \* (users, cards, focus_tasks, daily_tasks: not touched here)
    uuids,        \* number of habit ids uuid4 has handed out
    result,       \* the response to the last habit request
    DEV_STORE,    \* the dict of identity_evolution_supabase.py
    supabase,     \* the Supabase tables, each a list of rows
    reply,        \* the response to the last identity request
    inflight,     \* the request each worker is serving, and how far it is
    cards         \* memory_db["cards"], in insertion order

\* the state of the identity ledger, and all else a habit handler leaves alone
ledger == <<DEV_STORE, supabase, reply, inflight, cards>>
\* the state of the habit tracker, and all else an identity handler leaves alone
tracker == <<today, memory_db, uuids, result, inflight, cards>>

vars == <<today, memory_db, uuids, result, DEV_STORE, supabase, reply,
          inflight, cards>>

HasKey(k)       == k \in DOMAIN memory_db
\* memory_db[k] = v, adding the key when it is absent
SetKey(db, k, v) == [x \in (DOMAIN db) \cup {k} |-> IF x = k THEN v ELSE db[x]]
\* `if key not in memory_db: memory_db[key] = []`
EnsureKey(db, k) == IF k \in DOMAIN db THEN db ELSE SetKey(db, k, <<>>)

Habits          == IF HasKey(habits_key) THEN memory_db[habits_key] ELSE <<>>
CheckIns        == IF HasKey(checkins_key) THEN memory_db[checkins_key] ELSE <<>>
\* the ids requests name: created, deleted or not yet handed out
AllIds          == 1..MaxHabits

Response(op, id, status, detail) ==
    [op |-> op, habit_id |-> id, status |-> status, detail |-> detail,
     completed |-> FALSE, manual |-> FALSE]

\* index of the first habit with this id, 0 when there is none
\* (`for i, h in enumerate(...): if h["id"] == habit_id`)
FindHabit(hs, id) ==
    IF \E i \in 1..Len(hs) : hs[i].id = id
    THEN CHOOSE i \in 1..Len(hs) :
            /\ hs[i].id = id
            /\ \A j \in 1..(i - 1) : hs[j].id # id
    ELSE 0

(* --------------------------- models/habit.py --------------------------- *)
\* calculate_required_days with the middle band starting above 3 (`>` for `>=`)
calculate_required_days_strict(frequency) ==
    IF frequency.type = DAILY THEN DailyRequiredDays
    ELSE IF frequency.type = WEEKLY THEN WeeklyRequiredDays
    ELSE IF frequency.type = CUSTOM THEN
        IF frequency.target_days >= CustomHighTarget THEN CustomHighDays
        ELSE IF frequency.target_days > CustomMidTarget THEN CustomMidDays
        ELSE CustomLowDays
    ELSE DailyRequiredDays

\* Habit.calculate_required_days; target_days is an int here
calculate_required_days(frequency) ==
    IF frequency.type = DAILY THEN DailyRequiredDays
    ELSE IF frequency.type = WEEKLY THEN WeeklyRequiredDays
    ELSE IF frequency.type = CUSTOM THEN
        IF frequency.target_days >= CustomHighTarget THEN CustomHighDays
        ELSE IF frequency.target_days >= CustomMidTarget THEN CustomMidDays
        ELSE CustomLowDays
    ELSE DailyRequiredDays

\* `None >= 5` raises TypeError in calculate_required_days
RequiredDaysRaises(frequency) ==
    frequency.type = CUSTOM /\ frequency.target_days = NoTarget

\* the Habit built by create_habit, as habit.dict() stores it; start_date,
\* created_at and updated_at, which no handler reads, are left out
NewHabit(id, title, description, tiny, frequency, now) ==
    [id |-> id, user_id |-> user_id,
     title |-> title, description |-> description,
     tiny_habit_option |-> tiny, frequency |-> frequency,
     lane |-> BECOMING,
     required_days |-> calculate_required_days(frequency),
     current_day |-> 0, missed_days |-> 0, grace_days_used |-> 0,
     longest_streak |-> 0, current_streak |-> 0, total_completions |-> 0,
     graduation_date |-> None, last_check_in |-> None]

(* ------------------------------ handlers ------------------------------- *)
\* how many requests are served at a time
MaxWorkers == 2
Workers == 1..MaxWorkers
\* a worker without a request
Idle ==
    [pc |-> "idle", id |-> 0, completed |-> FALSE, user_id |-> NoText,
     impact |-> None, strength |-> 0, evidence_count |-> 0]

ACTIVE_CARD == "active"
QUEUED == "queued"
ON_HOLD == "on-hold"
TEST_USER == "12345678-1234-5678-1234-567812345678"
\* init_test_data(): an active, a queued and an on-hold card of the test user
TestCards ==
    <<[id |-> 1, user_id |-> TEST_USER, status |-> ACTIVE_CARD],
      [id |-> 2, user_id |-> TEST_USER, status |-> QUEUED],
      [id |-> 3, user_id |-> TEST_USER, status |-> ON_HOLD]>>

\* no request is being served, the card store holds the test data
InitServer ==
    /\ inflight = [w \in Workers |-> Idle]
    /\ cards = TestCards

Init ==
    /\ InitServer
    /\ today = 1
    /\ memory_db = [k \in {} |-> <<>>]
    /\ uuids = 0
    /\ result = Response("init", 0, 200, "")
    /\ DEV_STORE = [qualities |-> <<>>, evidence |-> <<>>, challenges |-> <<>>,
                    next_id |-> 1]
    /\ supabase = [identity_qualities |-> <<>>, identity_evidence |-> <<>>,
                   identity_challenges |-> <<>>, identity_milestones |-> <<>>,
                   row_order |-> <<>>]
    /\ reply = [op |-> "init", status |-> 200, detail |-> "", user_id |-> "None",
                id |-> 0, value |-> 0, day |-> 0, tier |-> ""]

\* midnight passes
Tick(maxDay) ==
    /\ today < maxDay
    /\ today' = today + 1
    /\ result' = Response("tick", 0, 200, "")
    /\ UNCHANGED <<memory_db, uuids, ledger>>

\* POST /
create_habit(frequencies, maxHabits) ==
    \E title \in Titles, description \in OptTexts, tiny \in OptTexts,
       frequency \in frequencies :
        /\ uuids < maxHabits
        /\ UNCHANGED <<today, ledger>>
        /\ IF RequiredDaysRaises(frequency)
           THEN \* the validator rejects the body before the handler runs, or is
                \* skipped for a None and the handler dies on `None >= 5`
                \/ /\ result' = Response("create_habit", 0, 422, "target_days required")
                   /\ UNCHANGED <<memory_db, uuids>>
                \/ /\ result' = Response("create_habit", 0, 500, "TypeError")
                   /\ memory_db' = EnsureKey(memory_db, habits_key)
                   /\ uuids' = uuids + 1
           ELSE /\ uuids' = uuids + 1
                /\ memory_db' =
                     SetKey(memory_db, habits_key,
                            Append(Habits,
                                   NewHabit(uuids + 1, title, description, tiny,
                                            frequency, DateTime(today))))
                /\ result' = Response("create_habit", uuids + 1, 200, "")

\* an update that stores a Habit rebuilt from the body, required_days at the
\* default of the Habit model
ApplyUpdateDefaultDays(h, data) ==
    [f \in DOMAIN h |->
        IF f \in DOMAIN data THEN data[f]
        ELSE IF f = "required_days" THEN DailyRequiredDays
        ELSE h[f]]

\* an update that stores a Habit rebuilt from the body, lane at its default
ApplyUpdateRebuilt(h, data) ==
    [f \in DOMAIN h |->
        IF f \in DOMAIN data THEN data[f]
        ELSE IF f = "lane" THEN BECOMING
        ELSE h[f]]

\* PUT /{habit_id}: `for field, value in update_data.items(): habit[field] = value`
\* (data is habit_update.dict(exclude_unset=True))
ApplyUpdate(h, data) ==
    [f \in DOMAIN h |->
        IF f \in DOMAIN data THEN data[f]
        ELSE h[f]]

\* the bodies HabitUpdate admits: any of its three Optional fields, set or unset
UpdateFields == {"title", "description", "tiny_habit_option"}
UpdateBodies == UNION {[S -> {"walk"}] : S \in {{}, {"title", "tiny_habit_option"}}}

update_habit ==
    \E id \in AllIds, data \in UpdateBodies :
        /\ UNCHANGED <<today, uuids, ledger>>
        /\ IF ~HasKey(habits_key) \/ FindHabit(Habits, id) = 0
           THEN /\ result' = Response("update_habit", id, 404, "Habit not found")
                /\ UNCHANGED memory_db
           ELSE LET i == FindHabit(Habits, id) IN
                /\ memory_db' =
                     [memory_db EXCEPT ![habits_key][i] =
                         ApplyUpdate(Habits[i], data)]
                /\ result' = Response("update_habit", id, 200, "")

\* GET /?lane=
get_habits ==
    /\ memory_db' = EnsureKey(memory_db, habits_key)
    /\ result' = Response("get_habits", 0, 200, "")
    /\ UNCHANGED <<today, uuids, ledger>>

\* GET /{habit_id}
get_habit ==
    \E id \in AllIds :
        /\ result' = IF HasKey(habits_key) /\ FindHabit(Habits, id) # 0
                     THEN Response("get_habit", id, 200, "")
                     ELSE Response("get_habit", id, 404, "Habit not found")
        /\ UNCHANGED <<today, memory_db, uuids, ledger>>

\* DELETE /{habit_id}
delete_habit ==
    \E id \in AllIds :
        /\ UNCHANGED <<today, uuids, ledger>>
        /\ IF ~HasKey(habits_key)
           THEN /\ result' = Response("delete_habit", id, 404, "Habit not found")
                /\ UNCHANGED memory_db
           ELSE /\ memory_db' =
                     [memory_db EXCEPT ![habits_key] =
                         SelectSeq(Habits, LAMBDA h : h.id # id)]
                /\ result' = Response("delete_habit", id, 200, "")

(* ----------------------------- check-ins ------------------------------- *)
\* `ci["habit_id"] == habit_id and ci["check_in_date"] == today` for some stored
\* check-in, today being date.today().isoformat()
AlreadyCheckedIn(cis, id, day) ==
    \E k \in 1..Len(cis) :
        cis[k].habit_id = id /\ PyEq(cis[k].check_in_date, isoformat(day))

\* yesterday's check-in looked up by date, date against date
YesterdayMissedByDate(cis, id, day) ==
    ~ \E k \in 1..Len(cis) :
        /\ cis[k].habit_id = id
        /\ PyEq(cis[k].check_in_date, MinusOneDay(day))
        /\ cis[k].completed

\* `not any(ci["habit_id"] == habit_id and ci["check_in_date"] == yesterday
\*          and ci["completed"] ...)`, yesterday being an isoformat() str
YesterdayMissed(cis, id, day) ==
    ~ \E k \in 1..Len(cis) :
        /\ cis[k].habit_id = id
        /\ PyEq(cis[k].check_in_date, isoformat(MinusOneDay(day)))
        /\ cis[k].completed

\* the completed branch without its longest_streak update
CompletedUpdateNoLongest(h) ==
    [h EXCEPT !.total_completions = h.total_completions + 1,
              !.current_streak = h.current_streak + 1,
              !.current_day = h.current_day + 1]

\* the completed branch without its current_day increment
CompletedUpdateNoDay(h) ==
    LET streak == h.current_streak + 1 IN
    [h EXCEPT !.total_completions = h.total_completions + 1,
              !.current_streak = streak,
              !.longest_streak = IF streak > h.longest_streak
                                 THEN streak ELSE h.longest_streak]

\* the `if check_in.completed:` branch
CompletedUpdate(h) ==
    LET streak == h.current_streak + 1 IN
    [h EXCEPT !.total_completions = h.total_completions + 1,
              !.current_streak = streak,
              !.current_day = h.current_day + 1,
              !.longest_streak = IF streak > h.longest_streak
                                 THEN streak ELSE h.longest_streak]

\* the `else:` branch without its missed_days increment
MissedUpdateUncounted(h, cis, day) ==
    [h EXCEPT !.current_streak = IF YesterdayMissed(cis, h.id, day)
                                 THEN 0 ELSE h.current_streak]

\* the `else:` branch
MissedUpdate(h, cis, day) ==
    [h EXCEPT !.missed_days = h.missed_days + 1,
              !.current_streak = IF YesterdayMissed(cis, h.id, day)
                                 THEN 0 ELSE h.current_streak]

\* `habit["last_check_in"] = datetime.now().isoformat()`
Stamp(h, now) ==
    [h EXCEPT !.last_check_in = isoformat(now)]

\* checkin.dict(): check_in_date stays a datetime.date
NewCheckIn(id, habit_id, completed, day, now) ==
    [id |-> id, habit_id |-> habit_id, completed |-> completed,
     check_in_date |-> day, created_at |-> now]

\* the body of create_check_in; it holds no `await`, so the event loop runs it
\* from the first line to the last before it turns to another request
CheckedIn(id, completed, maxCheckIns) ==
        LET Reply(status, detail) ==
                [Response("create_check_in", id, status, detail)
                    EXCEPT !.completed = completed]
        IN
        /\ IF ~HasKey(habits_key) \/ FindHabit(Habits, id) = 0
           THEN /\ result' = Reply(404, "Habit not found")
                /\ UNCHANGED memory_db
           ELSE LET i   == FindHabit(Habits, id)
                    db  == EnsureKey(memory_db, checkins_key)
                    cis == db[checkins_key]
                    h   == IF completed THEN CompletedUpdate(Habits[i])
                           ELSE MissedUpdate(Habits[i], cis, Date(today))
                IN
                IF AlreadyCheckedIn(cis, id, Date(today))
                THEN /\ result' = Reply(400, "Already checked in today")
                     /\ memory_db' = db
                ELSE /\ Len(cis) < maxCheckIns
                     /\ memory_db' =
                          [db EXCEPT
                             ![habits_key][i] = Stamp(h, DateTime(today)),
                             ![checkins_key] =
                                Append(cis, NewCheckIn(Len(cis) + 1, id, completed,
                                                       Date(today), DateTime(today)))]
                     /\ result' = Reply(200, "")

\* POST /{habit_id}/checkin
create_check_in(maxCheckIns, completions) ==
    \E id \in AllIds, completed \in completions :
        /\ UNCHANGED <<today, uuids, ledger>>
        /\ CheckedIn(id, completed, maxCheckIns)

\* a check-in request reaches the server while others wait to be served
receive_check_in ==
    \E w \in Workers, id \in AllIds, completed \in BOOLEAN :
        /\ inflight[w].pc = "idle"
        /\ inflight' = [inflight EXCEPT ![w] =
                            [Idle EXCEPT !.pc = "check_in", !.id = id,
                                         !.completed = completed]]
        /\ UNCHANGED <<today, memory_db, uuids, result, DEV_STORE, supabase, reply,
                       cards>>

\* the event loop runs create_check_in for one of the waiting requests
serve_check_in ==
    \E w \in Workers :
        /\ inflight[w].pc = "check_in"
        /\ CheckedIn(inflight[w].id, inflight[w].completed, MaxCheckIns)
        /\ inflight' = [inflight EXCEPT ![w] = Idle]
        /\ UNCHANGED <<today, uuids, DEV_STORE, supabase, reply, cards>>

(* ----------------------------- graduation ------------------------------ *)
\* the manual check against required_days instead of 21
ManualTooEarlyRequired(h, manual) ==
    manual /\ h.current_day < h.required_days

\* `graduation.manual and habit["current_day"] < 21`
ManualTooEarly(h, manual) ==
    manual /\ h.current_day < ManualMinDays

\* the automatic check against the manual minimum instead of required_days
AutoTooEarlyManualMin(h) ==
    h.current_day < ManualMinDays

\* `habit["current_day"] < habit["required_days"]`
AutoTooEarly(h) ==
    h.current_day < h.required_days

Max(a, b) == IF a > b THEN a ELSE b

\* `habit["total_completions"] / max(habit["current_day"], 1) < 0.8`
Inconsistent(h) ==
    h.total_completions * ConsistencyDen < ConsistencyNum * Max(h.current_day, 1)

\* a graduation that moves the lane and forgets the date
GraduatedNoDate(h, now) ==
    [h EXCEPT !.lane = I_AM]

\* "Graduate the habit"
Graduated(h, now) ==
    [h EXCEPT !.lane = I_AM,
              !.graduation_date = isoformat(now)]

\* POST /{habit_id}/graduate
graduate_habit ==
    \E id \in AllIds, manual \in BOOLEAN :
        LET Reply(status, detail) ==
                [Response("graduate_habit", id, status, detail)
                    EXCEPT !.manual = manual]
        IN
        /\ UNCHANGED <<today, uuids, ledger>>
        /\ IF ~HasKey(habits_key) \/ FindHabit(Habits, id) = 0
           THEN /\ result' = Reply(404, "Habit not found")
                /\ UNCHANGED memory_db
           ELSE LET i == FindHabit(Habits, id)
                    h == Habits[i]
                IN
                IF h.lane = I_AM
                THEN /\ result' = Reply(400, "Habit already graduated")
                     /\ UNCHANGED memory_db
                ELSE IF ManualTooEarly(h, manual)
                THEN /\ result' = Reply(400, "Manual graduation requires minimum 21 days")
                     /\ UNCHANGED memory_db
                ELSE IF ~manual /\ AutoTooEarly(h)
                THEN /\ result' = Reply(400, "Auto graduation requires required_days days")
                     /\ UNCHANGED memory_db
                ELSE IF ~manual /\ Inconsistent(h)
                THEN /\ result' = Reply(400, "Auto graduation requires 80% consistency")
                     /\ UNCHANGED memory_db
                ELSE /\ memory_db' =
                          [memory_db EXCEPT ![habits_key][i] =
                              Graduated(h, DateTime(today))]
                     /\ result' = Reply(200, "")

\* GET /{habit_id}/stats
get_habit_stats ==
    \E id \in AllIds :
        /\ UNCHANGED <<today, uuids, ledger>>
        /\ IF ~HasKey(habits_key) \/ FindHabit(Habits, id) = 0
           THEN /\ result' = Response("get_habit_stats", id, 404, "Habit not found")
                /\ UNCHANGED memory_db
           ELSE /\ memory_db' = EnsureKey(memory_db, checkins_key)
                /\ result' = Response("get_habit_stats", id, 200, "")

(* --------------------------- specifications ---------------------------- *)
Next ==
    \/ Tick(MaxDay)
    \/ create_habit(FewFrequencies, MaxHabits)
    \/ update_habit
    \/ delete_habit
    \/ create_check_in(MaxCheckIns, BOOLEAN)
    \/ graduate_habit
    \/ get_habit_stats

Spec == Init /\ [][Next]_vars

\* check-in requests that arrive together on one day
NextCheckIns ==
    \/ create_habit(FewFrequencies, MaxHabits)
    \/ receive_check_in
    \/ serve_check_in

SpecCheckIns == Init /\ [][NextCheckIns]_vars

\* one habit of any frequency, checked in as completed until graduation is due
\* and beyond
NextGrad ==
    \/ create_habit(AllFrequencies, 1)
    \/ get_habits
    \/ get_habit
    \/ update_habit
    \/ create_check_in(MaxGradCheckIns, {TRUE})
    \/ graduate_habit
    \/ get_habit_stats

SpecGrad == Init /\ [][NextGrad]_vars

(* ------------------------------ properties ----------------------------- *)
Exists(id)        == FindHabit(Habits, id) # 0
HabitOf(id)       == Habits[FindHabit(Habits, id)]
Exists_(id)       == HasKey(habits_key)' /\ FindHabit(Habits', id) # 0
HabitOf_(id)      == Habits'[FindHabit(Habits', id)]
\* the stored check-ins of one habit, oldest first
CheckInsOf(id)    == SelectSeq(CheckIns, LAMBDA ci : ci.habit_id = id)
\* the request just served
Served(op, status) == result'.op = op /\ result'.status = status

\* C1: every stored habit has current_streak <= longest_streak.
C1_StreakBounded ==
    \A i \in 1..Len(Habits) : Habits[i].current_streak <= Habits[i].longest_streak

\* a streak of two that a miss then reset: current_streak below longest_streak
C1_Witness ==
    \E i \in 1..Len(Habits) :
        /\ Habits[i].longest_streak = 2
        /\ Habits[i].current_streak = 0
        /\ Habits[i].missed_days = 1

\* C3 as claimed: no two stored check-ins share (habit_id, check_in_date).
C3_OnePerDay ==
    \A j, k \in 1..Len(CheckIns) :
        (j # k /\ CheckIns[j].habit_id = CheckIns[k].habit_id)
            => CheckIns[j].check_in_date.ord # CheckIns[k].check_in_date.ord

\* C4: a habit whose check-ins are exactly completed, missed, completed on
\* three consecutive days has current_streak 1 and missed_days 1.
C4_Scenario(id) ==
    LET cis == CheckInsOf(id) IN
    /\ Exists(id)
    /\ Len(cis) = 3
    /\ cis[1].completed /\ ~cis[2].completed /\ cis[3].completed
    /\ cis[2].check_in_date.ord = cis[1].check_in_date.ord + 1
    /\ cis[3].check_in_date.ord = cis[2].check_in_date.ord + 1

CompletedYesterday(id) ==
    \E k \in 1..Len(CheckIns) :
        /\ CheckIns[k].habit_id = id
        /\ CheckIns[k].check_in_date.ord = today - 1
        /\ CheckIns[k].completed

\* C5 as claimed: a successful missed check-in adds 1 to missed_days, keeps
\* current_streak when yesterday's check-in is completed and zeroes it
\* otherwise, and leaves total_completions, current_day, longest_streak alone.
C5_GraceRule ==
    [][(Served("create_check_in", 200) /\ ~result'.completed) =>
        LET id == result'.habit_id
            h  == HabitOf(id)
            g  == HabitOf_(id)
        IN
        /\ g.missed_days = h.missed_days + 1
        /\ g.current_streak =
              IF CompletedYesterday(id) THEN h.current_streak ELSE 0
        /\ g.total_completions = h.total_completions
        /\ g.current_day = h.current_day
        /\ g.longest_streak = h.longest_streak]_vars

\* C6: a successful completed check-in adds 1 to total_completions,
\* current_streak and current_day, makes longest_streak the larger of its old
\* value and the new current_streak, and leaves missed_days alone.
C6_CompletedCheckIn ==
    [][(Served("create_check_in", 200) /\ result'.completed) =>
        LET id == result'.habit_id
            h  == HabitOf(id)
            g  == HabitOf_(id)
        IN
        /\ g.total_completions = h.total_completions + 1
        /\ g.current_streak = h.current_streak + 1
        /\ g.current_day = h.current_day + 1
        /\ g.longest_streak = Max(h.longest_streak, h.current_streak + 1)
        /\ g.missed_days = h.missed_days]_vars

\* a second completed check-in in a row has just raised both streaks to 2
C6_Witness ==
    /\ result.op = "create_check_in" /\ result.status = 200 /\ result.completed
    /\ Exists(result.habit_id)
    /\ HabitOf(result.habit_id).current_streak = 2
    /\ HabitOf(result.habit_id).longest_streak = 2
    /\ HabitOf(result.habit_id).total_completions = 2

\* C2: a habit's lane changes only from becoming to i_am, only in a
\* successful graduate_habit, and never leaves i_am: not in an update, a
\* check-in, a stats request or a further graduate request.
C2_LaneOneWay ==
    [][\A id \in AllIds :
        (Exists(id) /\ Exists_(id)) =>
            /\ HabitOf(id).lane = I_AM => HabitOf_(id).lane = I_AM
            /\ HabitOf(id).lane # HabitOf_(id).lane =>
                  /\ HabitOf(id).lane = BECOMING
                  /\ HabitOf_(id).lane = I_AM
                  /\ Served("graduate_habit", 200)
                  /\ result'.habit_id = id]_vars

\* a check-in has just been recorded for a graduated habit
C2_Witness ==
    /\ result.op = "create_check_in" /\ result.status = 200
    /\ Exists(result.habit_id)
    /\ HabitOf(result.habit_id).lane = I_AM
    /\ HabitOf(result.habit_id).title = "walk"

\* C7: every stored habit in lane i_am has a graduation_date.
C7_GraduatedHasDate ==
    \A i \in 1..Len(Habits) :
        Habits[i].lane = I_AM => Habits[i].graduation_date # None

C7_Witness ==
    \E i \in 1..Len(Habits) : Habits[i].lane = I_AM

\* total_completions / max(current_day, 1) >= 0.80, in integers
ConsistentEnough(h) ==
    ConsistencyDen * h.total_completions >= ConsistencyNum * Max(h.current_day, 1)

\* C8: an automatic graduate_habit on a becoming habit succeeds exactly when
\* current_day >= required_days and the consistency is at least 0.80; a
\* success moves the habit to i_am, a failure leaves lane and graduation_date.
C8_AutoGraduation ==
    [][(result'.op = "graduate_habit" /\ ~result'.manual
            /\ Exists(result'.habit_id)
            /\ HabitOf(result'.habit_id).lane = BECOMING) =>
        LET h == HabitOf(result'.habit_id)
            g == HabitOf_(result'.habit_id)
        IN
        /\ result'.status = 200 <=>
              (h.current_day >= h.required_days /\ ConsistentEnough(h))
        /\ result'.status = 200 => g.lane = I_AM
        /\ result'.status # 200 =>
              /\ result'.status = 400
              /\ g.lane = h.lane
              /\ g.graduation_date = h.graduation_date]_vars

\* an automatic graduation of a habit that needs 50 days has just succeeded
C8_Witness ==
    /\ result.op = "graduate_habit" /\ result.status = 200 /\ ~result.manual
    /\ Exists(result.habit_id)
    /\ HabitOf(result.habit_id).lane = I_AM
    /\ HabitOf(result.habit_id).required_days = CustomHighDays
    /\ HabitOf(result.habit_id).current_day = CustomHighDays

\* C9: a manual graduate_habit on a becoming habit fails below 21 days,
\* leaving lane becoming and graduation_date null, and succeeds from 21 days
\* on, whatever required_days is.
C9_ManualGraduation ==
    [][(result'.op = "graduate_habit" /\ result'.manual
            /\ Exists(result'.habit_id)
            /\ HabitOf(result'.habit_id).lane = BECOMING) =>
        LET h == HabitOf(result'.habit_id)
            g == HabitOf_(result'.habit_id)
        IN
        IF h.current_day < 21
        THEN /\ result'.status = 400
             /\ g.lane = BECOMING
             /\ g.graduation_date = None
        ELSE /\ result'.status = 200
             /\ g.lane = I_AM]_vars

\* a manual graduation has just succeeded short of required_days
C9_Witness ==
    /\ result.op = "graduate_habit" /\ result.status = 200 /\ result.manual
    /\ Exists(result.habit_id)
    /\ HabitOf(result.habit_id).lane = I_AM
    /\ HabitOf(result.habit_id).current_day < HabitOf(result.habit_id).required_days

\* the required_days the table gives a frequency
TableRequiredDays(f) ==
    CASE f.type = DAILY -> 40
      [] f.type = WEEKLY -> 90
      [] f.type = CUSTOM /\ f.target_days >= 5 -> 50
      [] f.type = CUSTOM /\ f.target_days \in {3, 4} -> 60
      [] f.type = CUSTOM /\ f.target_days \in {1, 2} -> 90

\* C10: create_habit stores the required_days the table gives the frequency.
C10_RequiredDays ==
    [][Served("create_habit", 200) =>
        /\ Exists_(result'.habit_id)
        /\ HabitOf_(result'.habit_id).required_days =
              TableRequiredDays(HabitOf_(result'.habit_id).frequency)]_vars

\* a custom habit of 3 days a week has just been created
C10_Witness ==
    /\ result.op = "create_habit" /\ result.status = 200
    /\ Exists(result.habit_id)
    /\ HabitOf(result.habit_id).frequency.type = CUSTOM
    /\ HabitOf(result.habit_id).frequency.target_days = 3
    /\ HabitOf(result.habit_id).required_days = 60

\* C11: once a habit is stored, no request changes its required_days: not an
\* update, a check-in, a graduation or a stats request.
C11_RequiredDaysFixed ==
    [][\A id \in AllIds :
        (Exists(id) /\ Exists_(id)) =>
            HabitOf_(id).required_days = HabitOf(id).required_days]_vars

\* a weekly habit, 90 days to go, updated, checked in and graduated by hand
C11_Witness ==
    \E id \in AllIds :
        /\ Exists(id)
        /\ HabitOf(id).required_days = WeeklyRequiredDays
        /\ HabitOf(id).title = "walk"
        /\ HabitOf(id).lane = I_AM
        /\ HasKey(checkins_key)

(***************************************************************************)
(* Identity ledger: identity_evolution_supabase.py.                        *)
(* A strength, a growth rate and a strength increase are counted in tenths *)
(* of a point (95.0 is 950); the inputs are chosen so that `* 2.0` and     *)
(* `* 0.5` are exact.  The free-text fields of an evidence record and the  *)
(* created_at stamps are never read by a handler and are left out.         *)
(***************************************************************************)
\* how many qualities and evidence records the two stores hold together
MaxRows == 3

\* the user the handlers serve from DEV_STORE, and a user served from Supabase
DEV_USER == "00000000-0000-0000-0000-000000000001"
Users == {DEV_USER, "u2"}
QualityNames == {"brave", "kind"}
\* `category: Optional[str] = "character"`
DefaultCategory == "character"

\* a Python float, in tenths
Float(n) == [type |-> "float", of |-> "float", ord |-> n]
\* `impact_score: Optional[float] = 1.0`: -1.0, 10.0 or null
ImpactScores == {Float(-10), Float(100), None}
\* QualityUpdate bodies: a strength of -5.0 or 95.0, the category unset
QualityUpdates ==
    {[strength |-> Float(x), category |-> NoText] : x \in {-50, 950}}

ZeroStrength == 0
FullStrength == 1000
MockGrowthRate == 50
Min(a, b) == IF a < b THEN a ELSE b

Qualities == DEV_STORE.qualities
DbQualities == supabase.identity_qualities
\* the qualities and evidence records stored so far
Rows ==
    Len(Qualities) + Len(DbQualities)
        + Len(DEV_STORE.evidence) + Len(supabase.identity_evidence)
\* the ids a request may name
QualityIds == 1..MaxRows

Reply(op, status, detail, user, id, value) ==
    [op |-> op, status |-> status, detail |-> detail, user_id |-> user,
     id |-> id, value |-> value, day |-> 0, tier |-> ""]

\* index of the first row of a list that satisfies Test, 0 when there is none
RECURSIVE FirstFrom(_, _, _)
FirstFrom(rows, Test(_), i) ==
    IF i > Len(rows) THEN 0
    ELSE IF Test(rows[i]) THEN i
    ELSE FirstFrom(rows, Test, i + 1)
First(rows, Test(_)) == FirstFrom(rows, Test, 1)

\* the quality dict of the dev store: strength 0.0, no evidence
NewQuality(id, user, name, category) ==
    [id |-> id, user_id |-> user, quality_name |-> name, category |-> category,
     strength |-> ZeroStrength, evidence_count |-> 0, last_evidence |-> None,
     growth_rate |-> 0]

\* `DEV_STORE['qualities'].append(new_quality); DEV_STORE['next_id'] += 1`
StoreQuality(user, name, category) ==
    [DEV_STORE EXCEPT
        !.qualities = Append(@, NewQuality(DEV_STORE.next_id, user, name, category)),
        !.next_id = @ + 1]

\* the orders in which the identity_qualities table may return n rows of equal
\* sort key: the code leaves it to the database, which keeps it between writes
Orders(n) ==
    {p \in [1..n -> 1..n] : \A a, b \in 1..n : p[a] = p[b] => a = b}

\* the row the identity_qualities table makes of an insert: a serial id and
\* the column defaults
InsertedQuality(user, name, category) ==
    NewQuality(Len(DbQualities) + 1, user, name, category)

\* POST /qualities
create_quality ==
    \E user \in Users, name \in QualityNames :
        /\ UNCHANGED tracker
        /\ IF user = DEV_USER
           THEN \* `existing = [q for q in DEV_STORE['qualities'] if ...]`
                IF First(Qualities, LAMBDA q : q.quality_name = name) # 0
                THEN /\ reply' = Reply("create_quality", 400, "Quality already exists",
                                       user, 0, 0)
                     /\ UNCHANGED <<DEV_STORE, supabase>>
                ELSE /\ Rows < MaxRows
                     /\ DEV_STORE' = StoreQuality(user, name, DefaultCategory)
                     /\ reply' = Reply("create_quality", 200, "dev", user,
                                       DEV_STORE.next_id, 0)
                     /\ UNCHANGED supabase
           ELSE \* `.eq('user_id', user_id).eq('quality_name', ...)`
                IF First(DbQualities,
                         LAMBDA q : q.user_id = user /\ q.quality_name = name) # 0
                THEN /\ reply' = Reply("create_quality", 400, "Quality already exists",
                                       user, 0, 0)
                     /\ UNCHANGED <<DEV_STORE, supabase>>
                ELSE \/ \* the insert answers
                        /\ Rows < MaxRows
                        /\ \E order \in Orders(Len(DbQualities) + 1) :
                               supabase' = [supabase EXCEPT
                                   !.identity_qualities =
                                       Append(@, InsertedQuality(user, name,
                                                                 DefaultCategory)),
                                   !.row_order = order]
                        /\ reply' = Reply("create_quality", 200, "db", user,
                                          Len(DbQualities) + 1, 0)
                        /\ UNCHANGED DEV_STORE
                     \/ \* the insert raises: `except Exception` stores in DEV_STORE
                        /\ Rows < MaxRows
                        /\ DEV_STORE' = StoreQuality(user, name, DefaultCategory)
                        /\ reply' = Reply("create_quality", 200, "fallback", user,
                                          DEV_STORE.next_id, 0)
                        /\ UNCHANGED supabase

\* `min(100.0, max(0.0, update.strength))`
ClampStrength(x) == Min(FullStrength, Max(ZeroStrength, x))

\* update_quality on a dev-store quality
UpdatedQuality(q, update, now) ==
    [q EXCEPT
        !.strength = IF update.strength # None
                     THEN ClampStrength(update.strength.ord) ELSE @,
        !.growth_rate = IF update.strength # None THEN MockGrowthRate ELSE @,
        !.category = IF update.category # NoText THEN update.category ELSE @,
        !.last_evidence = isoformat(now)]

\* `.update(update_data).eq('id', quality_id)`
UpdatedRow(q, update) ==
    [q EXCEPT
        !.strength = IF update.strength # None
                     THEN ClampStrength(update.strength.ord) ELSE @,
        !.category = IF update.category # NoText THEN update.category ELSE @]

\* PATCH /qualities/{quality_id}: the dev store is searched first, for any caller
update_quality_of(updates) ==
    \E quality_id \in QualityIds, update \in updates :
        LET i == First(Qualities, LAMBDA q : q.id = quality_id)
            j == First(DbQualities, LAMBDA q : q.id = quality_id)
        IN  /\ UNCHANGED tracker
            /\ IF i # 0
               THEN /\ DEV_STORE' = [DEV_STORE EXCEPT !.qualities[i] =
                                        UpdatedQuality(@, update, DateTime(today))]
                    /\ reply' = Reply("update_quality", 200, "dev", NoText, quality_id, 0)
                    /\ UNCHANGED supabase
               ELSE IF j # 0
               THEN /\ \E order \in Orders(Len(DbQualities)) :
                           supabase' = [supabase EXCEPT
                               !.identity_qualities[j] = UpdatedRow(@, update),
                               !.row_order = order]
                    /\ reply' = Reply("update_quality", 200, "db", NoText, quality_id, 0)
                    /\ UNCHANGED DEV_STORE
               ELSE /\ reply' = Reply("update_quality", 404, "Quality not found",
                                      NoText, quality_id, 0)
                    /\ UNCHANGED <<DEV_STORE, supabase>>

NewEvidence(id, user, quality_id, impact) ==
    [id |-> id, user_id |-> user, quality_id |-> quality_id, impact_score |-> impact]

\* `evidence.impact_score * 2.0`, `evidence.impact_score * 0.5`
DevStrengthIncrease(impact) == impact.ord * 2
DbStrengthIncrease(impact) == impact.ord \div 2

update_quality == update_quality_of(QualityUpdates)

\* `min(100.0, quality['strength'] + strength_increase)`
RaisedStrength(strength, increase) == Min(FullStrength, strength + increase)

\* an evidence record that is not counted
CreditedQualityUncounted(q, impact, now) ==
    [q EXCEPT !.strength = RaisedStrength(@, DevStrengthIncrease(impact)),
              !.last_evidence = isoformat(now),
              !.growth_rate = MockGrowthRate]

\* the dev-store quality after an evidence record
CreditedQuality(q, impact, now) ==
    [q EXCEPT !.strength = RaisedStrength(@, DevStrengthIncrease(impact)),
              !.evidence_count = @ + 1,
              !.last_evidence = isoformat(now),
              !.growth_rate = MockGrowthRate]

\* the identity_qualities row after an evidence record
CreditedRow(q, impact, now) ==
    [q EXCEPT !.strength = RaisedStrength(@, DbStrengthIncrease(impact)),
              !.evidence_count = @ + 1,
              !.last_evidence = isoformat(now)]

\* POST /evidence
record_evidence ==
    \E user \in Users, quality_id \in QualityIds, impact \in ImpactScores :
        /\ UNCHANGED tracker
        /\ IF user = DEV_USER
           THEN LET i == First(Qualities, LAMBDA q : q.id = quality_id)
                    stored == Append(DEV_STORE.evidence,
                                  NewEvidence(DEV_STORE.next_id, user, quality_id, impact))
                IN  IF i = 0
                    THEN /\ reply' = Reply("record_evidence", 404, "Quality not found",
                                           user, quality_id, 0)
                         /\ UNCHANGED <<DEV_STORE, supabase>>
                    ELSE /\ Rows < MaxRows
                         /\ UNCHANGED supabase
                         /\ IF impact = None
                            THEN \* `None * 2.0` raises after the append
                                 /\ DEV_STORE' = [DEV_STORE EXCEPT !.evidence = stored]
                                 /\ reply' = Reply("record_evidence", 500,
                                                   "Internal Server Error",
                                                   user, quality_id, 0)
                            ELSE /\ DEV_STORE' = [DEV_STORE EXCEPT
                                        !.evidence = stored,
                                        !.qualities[i] =
                                            CreditedQuality(@, impact, DateTime(today)),
                                        !.next_id = @ + 1]
                                 /\ reply' = Reply("record_evidence", 200, "dev",
                                                   user, quality_id, DEV_STORE.next_id)
           ELSE LET j == First(DbQualities,
                               LAMBDA q : q.id = quality_id /\ q.user_id = user)
                    id == Len(supabase.identity_evidence) + 1
                    stored == Append(supabase.identity_evidence,
                                  NewEvidence(id, user, quality_id, impact))
                IN  IF j = 0
                    THEN /\ reply' = Reply("record_evidence", 404, "Quality not found",
                                           user, quality_id, 0)
                         /\ UNCHANGED <<DEV_STORE, supabase>>
                    ELSE /\ Rows < MaxRows
                         /\ UNCHANGED DEV_STORE
                         /\ IF impact = None
                            THEN \* `None * 0.5` raises after the insert
                                 /\ supabase' = [supabase EXCEPT
                                        !.identity_evidence = stored]
                                 /\ reply' = Reply("record_evidence", 500, "TypeError",
                                                   user, quality_id, 0)
                            ELSE /\ \E order \in Orders(Len(DbQualities)) :
                                        supabase' = [supabase EXCEPT
                                            !.identity_evidence = stored,
                                            !.identity_qualities[j] =
                                                CreditedRow(@, impact, DateTime(today)),
                                            !.row_order = order]
                                 /\ reply' = Reply("record_evidence", 200, "db",
                                                   user, quality_id, id)

\* the quality of habit evidence, its impact_score 1.2 and its increase 0.3
CONSISTENT == "consistent"
AutoImpact == Float(12)
AutoStrengthIncrease == 3

\* the identity_qualities row after habit evidence
AutoCreditedRow(q, now) ==
    [q EXCEPT !.strength = RaisedStrength(@, AutoStrengthIncrease),
              !.evidence_count = @ + 1,
              !.last_evidence = isoformat(now)]

\* POST /auto-evidence with a habit_id and no task_id, the store answering
\* every call: the quality 'consistent' is found or inserted, then credited
record_auto_evidence ==
    \E user \in Users :
        LET j == First(DbQualities,
                       LAMBDA q : q.user_id = user /\ q.quality_name = CONSISTENT)
            qualities == IF j # 0 THEN DbQualities
                         ELSE Append(DbQualities,
                                     InsertedQuality(user, CONSISTENT, "behavior"))
            quality_id == IF j # 0 THEN j ELSE Len(qualities)
            stored == Append(supabase.identity_evidence,
                             NewEvidence(Len(supabase.identity_evidence) + 1, user,
                                         quality_id, AutoImpact))
        IN  /\ UNCHANGED <<tracker, DEV_STORE>>
            /\ Rows + (IF j # 0 THEN 1 ELSE 2) <= MaxRows
            /\ \E order \in Orders(Len(qualities)) :
                   supabase' = [supabase EXCEPT
                       !.identity_qualities =
                           [qualities EXCEPT ![quality_id] =
                               AutoCreditedRow(@, DateTime(today))],
                       !.identity_evidence = stored,
                       !.row_order = order]
            /\ reply' = Reply("record_auto_evidence", 200, "Habit evidence recorded",
                              user, quality_id, 0)

\* the report of a user without qualities
NoQualitiesTracked == "No qualities tracked"

\* the rows of one user, in table order
RowsOf(rows, user) == SelectSeq(rows, LAMBDA q : q.user_id = user)

\* the rows no other row is weaker than
Weakest(rows) ==
    {i \in 1..Len(rows) : \A k \in 1..Len(rows) : rows[i].strength <= rows[k].strength}

\* `sorted(..., key=lambda x: x['strength'])[0]`: a stable sort, the first of
\* the weakest
SortedFirst(rows) ==
    CHOOSE i \in Weakest(rows) : \A k \in Weakest(rows) : i <= k

\* the thresholds of the recommendation, 20 and 50
FocusBelow == 200
ProgressBelow == 500
FOCUS == "This quality needs focused attention. Start with small, daily actions."
PROGRESS == "You're making progress. Increase the challenge level."
MASTERY == "Good foundation established. Time for mastery."
FIRST_QUALITY == "Start by adding your first quality"

\* a recommendation that counts a strength on a threshold to the tier below
recommendation_inclusive(strength) ==
    IF strength <= FocusBelow THEN FOCUS
    ELSE IF strength <= ProgressBelow THEN PROGRESS
    ELSE MASTERY

\* `if weakest['strength'] < 20: ... elif weakest['strength'] < 50: ... else:`
recommendation(strength) ==
    IF strength < FocusBelow THEN FOCUS
    ELSE IF strength < ProgressBelow THEN PROGRESS
    ELSE MASTERY

\* the report of a user without qualities
NoReport(user) ==
    [Reply("get_growth_edge", 200, NoQualitiesTracked, user, 0, 0)
        EXCEPT !.tier = FIRST_QUALITY]

\* a report that tells an even call from an odd one
ReportCounted(weakest, user) ==
    [Reply("get_growth_edge", 200, weakest.quality_name, user, weakest.id,
           weakest.strength)
        EXCEPT !.tier = recommendation(weakest.strength),
               !.day = 1 - reply.day]

\* the report on the weakest quality
Report(weakest, user) ==
    [Reply("get_growth_edge", 200, weakest.quality_name, user, weakest.id,
           weakest.strength)
        EXCEPT !.tier = recommendation(weakest.strength)]

\* the table's rows in the order it returns rows of equal sort key
Returned ==
    [k \in 1..Len(DbQualities) |-> DbQualities[supabase.row_order[k]]]

\* GET /growth-edge
get_growth_edge ==
    \E user \in Users :
        /\ UNCHANGED <<tracker, DEV_STORE, supabase>>
        /\ IF user = DEV_USER
           THEN IF Qualities = <<>>
                THEN reply' = NoReport(user)
                ELSE reply' = Report(Qualities[SortedFirst(Qualities)], user)
           ELSE \* `.eq('user_id', user_id).order('strength')`, `response.data[0]`
                LET data == RowsOf(Returned, user)
                IN  IF data = <<>>
                    THEN \* the 404 raised in the try is caught by `except Exception`
                         reply' = NoReport(user)
                    ELSE reply' = Report(data[SortedFirst(data)], user)

\* the dev user tracks two qualities
InitEdge ==
    /\ InitServer
    /\ today = 1
    /\ memory_db = [k \in {} |-> <<>>]
    /\ uuids = 0
    /\ result = Response("init", 0, 200, "")
    /\ DEV_STORE = [qualities |-> <<NewQuality(1, DEV_USER, "brave", DefaultCategory),
                                    NewQuality(2, DEV_USER, "kind", DefaultCategory)>>,
                    evidence |-> <<>>, challenges |-> <<>>, next_id |-> 3]
    /\ supabase = [identity_qualities |-> <<>>, identity_evidence |-> <<>>,
                   identity_challenges |-> <<>>, identity_milestones |-> <<>>,
                   row_order |-> <<>>]
    /\ reply = Reply("create_quality", 200, "dev", DEV_USER, 2, 0)

\* strengths on both sides of the thresholds: 0, 15, 19.9, 20, 49.9, 50, 100
EdgeUpdates ==
    {[strength |-> Float(x), category |-> NoText] :
        x \in {0, 150, 199, 200, 499, 500, 1000}}

\* strengths set by hand, and the growth edge read
NextEdge ==
    \/ update_quality_of(EdgeUpdates)
    \/ get_growth_edge

SpecEdge == InitEdge /\ [][NextEdge]_vars

(* record_evidence on the database path, served by several server processes *)
(* over the one database: each `.execute()` is a call of its own, and the    *)
(* handler opens no transaction and takes no lock.                           *)
\* the impact scores of these requests: 1.0 and 10.0
ConcurrentScores == {Float(10), Float(100)}
\* the evidence records stored or about to be stored
Recorded ==
    Len(supabase.identity_evidence)
        + Cardinality({w \in Workers : inflight[w].pc = "insert"})

\* `quality_check = ...select("*").eq('id', ...).eq('user_id', user_id)`
evidence_check ==
    \E w \in Workers, quality_id \in QualityIds, impact \in ConcurrentScores :
        LET user == "u2"
            j == First(DbQualities,
                       LAMBDA q : q.id = quality_id /\ q.user_id = user)
        IN  /\ inflight[w].pc = "idle"
            /\ UNCHANGED <<today, memory_db, uuids, result, DEV_STORE, supabase, cards>>
            /\ IF j = 0
               THEN /\ reply' = Reply("record_evidence", 404, "Quality not found",
                                      user, quality_id, 0)
                    /\ UNCHANGED inflight
               ELSE /\ Recorded < MaxWorkers
                    /\ inflight' = [inflight EXCEPT ![w] =
                           [Idle EXCEPT !.pc = "insert", !.id = quality_id,
                                        !.user_id = user, !.impact = impact,
                                        !.strength = DbQualities[j].strength,
                                        !.evidence_count =
                                            DbQualities[j].evidence_count]]
                    /\ UNCHANGED reply

\* `supabase.table('identity_evidence').insert({...}).execute()`
evidence_insert ==
    \E w \in Workers :
        /\ inflight[w].pc = "insert"
        /\ supabase' = [supabase EXCEPT !.identity_evidence =
               Append(@, NewEvidence(Len(@) + 1, inflight[w].user_id, inflight[w].id,
                                     inflight[w].impact))]
        /\ inflight' = [inflight EXCEPT ![w].pc = "update"]
        /\ UNCHANGED <<today, memory_db, uuids, result, DEV_STORE, reply, cards>>

\* `supabase.table('identity_qualities').update({...}).eq('id', ...)`, from the
\* row that quality_check read
evidence_update ==
    \E w \in Workers, order \in Orders(Len(DbQualities)) :
        /\ inflight[w].pc = "update"
        /\ supabase' = [supabase EXCEPT
               !.identity_qualities[inflight[w].id] =
                   [@ EXCEPT !.strength =
                                 RaisedStrength(inflight[w].strength,
                                                DbStrengthIncrease(inflight[w].impact)),
                             !.evidence_count = inflight[w].evidence_count + 1,
                             !.last_evidence = isoformat(DateTime(today))],
               !.row_order = order]
        /\ reply' = Reply("record_evidence", 200, "db", inflight[w].user_id,
                          inflight[w].id, 0)
        /\ inflight' = [inflight EXCEPT ![w] = Idle]
        /\ UNCHANGED <<today, memory_db, uuids, result, DEV_STORE, cards>>

(* ------------------------- the card store ------------------------------ *)
MaxCards == 5      \* cards in memory_db["cards"], the three test cards included

CardUsers == {TEST_USER, "u2"}
\* card_data: `status` set to one of these, or left out (NoText)
CardData == [status : {NoText, ACTIVE_CARD, QUEUED, ON_HOLD}]

\* a store in which activating a card leaves the other cards as they are
Kept(cs, user, card_id) == cs

\* "Ensure only one active card": every active card of the user but card_id
\* (0 in create_card, which excepts none) is set to queued
Demoted(cs, user, card_id) ==
    [k \in 1..Len(cs) |->
        IF cs[k].user_id = user /\ cs[k].status = ACTIVE_CARD /\ cs[k].id # card_id
        THEN [cs[k] EXCEPT !.status = QUEUED]
        ELSE cs[k]]

\* MemoryDatabaseService.create_card: the new card's key is a fresh uuid4
create_card ==
    \E card_data \in CardData, user \in CardUsers :
        LET card_id == Len(cards) + 1
            others == IF card_data.status = ACTIVE_CARD
                      THEN Demoted(cards, user, 0) ELSE cards
            card == [id |-> card_id, user_id |-> user,
                     status |-> IF card_data.status = NoText
                                THEN QUEUED ELSE card_data.status]
        IN  /\ Len(cards) < MaxCards
            /\ cards' = Append(others, card)
            /\ reply' = Reply("create_card", 200, card.status, user, card_id, 0)
            /\ UNCHANGED <<today, memory_db, uuids, result, DEV_STORE, supabase,
                           inflight>>

\* MemoryDatabaseService.update_card
update_card ==
    \E card_id \in 1..MaxCards, card_data \in CardData, user \in CardUsers :
        /\ UNCHANGED <<today, memory_db, uuids, result, DEV_STORE, supabase, inflight>>
        /\ IF card_id > Len(cards) \/ cards[card_id].user_id # user
           THEN \* `raise ValueError(...)`, answered with 404 by the endpoint
                /\ reply' = Reply("update_card", 404, "Card not found", user,
                                  card_id, 0)
                /\ UNCHANGED cards
           ELSE LET others == IF card_data.status = ACTIVE_CARD
                              THEN Demoted(cards, user, card_id) ELSE cards
                    status == IF card_data.status = NoText
                              THEN cards[card_id].status ELSE card_data.status
                IN  /\ cards' = [others EXCEPT ![card_id].status = status]
                    /\ reply' = Reply("update_card", 200, status, user, card_id, 0)

NextCards ==
    \/ create_card
    \/ update_card

SpecCards == Init /\ [][NextCards]_vars

\* evidence from habits next to evidence from callers
NextAuto ==
    \/ record_auto_evidence
    \/ record_evidence
    \/ update_quality

SpecAuto == Init /\ [][NextAuto]_vars

NextLedger ==
    \/ create_quality
    \/ update_quality
    \/ record_evidence
    \/ get_growth_edge

SpecLedger == Init /\ [][NextLedger]_vars

(* ----------------------------- challenges ----------------------------- *)
\* how many challenges the table holds
MaxChallenges == 2
\* `if len(completed_days) >= 7`
ChallengeDays == 7
\* `update_data['xp_earned'] = new_xp + 100`
CompletionBonus == 100
\* `day: int` is not validated: the days of a challenge and one beyond
DayNumbers == 1..(ChallengeDays + 1)
ACTIVE == "active"
COMPLETED == "completed"

Challenges == supabase.identity_challenges
Milestones == supabase.identity_milestones

\* the row the identity_challenges table makes of an insert: a serial id and
\* the column defaults (status active, no completed day, current_day 0, no xp)
InsertedChallenge(user, quality_id) ==
    [id |-> Len(Challenges) + 1, user_id |-> user, quality_target_id |-> quality_id,
     status |-> ACTIVE, completed_days |-> <<>>, current_day |-> 0,
     xp_earned |-> 0, completed_at |-> None]

\* an active check that finds nothing
active_check_never(user, quality_id) == <<>>

\* `.eq('user_id', ...).eq('quality_target_id', ...).eq('status', 'active')`
active_check(user, quality_id) ==
    SelectSeq(Challenges, LAMBDA c : /\ c.user_id = user
                                     /\ c.quality_target_id = quality_id
                                     /\ c.status = ACTIVE)

\* POST /challenges
create_challenge(maxChallenges) ==
    \E user \in Users, quality_id \in QualityIds :
        /\ UNCHANGED <<tracker, DEV_STORE>>
        /\ IF First(DbQualities,
                    LAMBDA q : q.id = quality_id /\ q.user_id = user) = 0
           THEN /\ reply' = Reply("create_challenge", 404, "Quality not found",
                                  user, quality_id, 0)
                /\ UNCHANGED supabase
           ELSE IF active_check(user, quality_id) # <<>>
           THEN /\ reply' = Reply("create_challenge", 400,
                                  "Active challenge already exists for this quality",
                                  user, quality_id, 0)
                /\ UNCHANGED supabase
           ELSE /\ Len(Challenges) < maxChallenges
                /\ supabase' = [supabase EXCEPT !.identity_challenges =
                                   Append(@, InsertedChallenge(user, quality_id))]
                /\ reply' = Reply("create_challenge", 200, "", user, quality_id,
                                  Len(Challenges) + 1)

ChallengeIds == 1..MaxChallenges

\* `10 * (1 + (0.1 * len(completed_days)))`, a float, in tenths
xp_reward_flat(n) == 100
xp_reward(n) == 10 * (10 + n)
\* `int(xp_reward)`
int(x) == x \div 10

\* `day in completed_days`
In(day, days) == \E k \in 1..Len(days) : days[k] = day

\* a challenge that takes one day more
IsCompleteLate(days) == Len(days) > ChallengeDays
\* `len(completed_days) >= 7`
IsComplete(days) == Len(days) >= ChallengeDays

\* update_data applied to the row
CompletedDay(c, day, now) ==
    LET completed_days == Append(c.completed_days, day)
        new_xp == c.xp_earned + int(xp_reward(Len(completed_days)))
    IN  IF IsComplete(completed_days)
        THEN [c EXCEPT !.completed_days = completed_days,
                       !.current_day = day,
                       !.status = COMPLETED,
                       !.completed_at = isoformat(now),
                       !.xp_earned = new_xp + CompletionBonus]
        ELSE [c EXCEPT !.completed_days = completed_days,
                       !.current_day = day,
                       !.xp_earned = new_xp]

\* the identity_milestones row of a completed challenge
NewMilestone(c) ==
    [user_id |-> c.user_id, quality_id |-> c.quality_target_id,
     challenge_id |-> c.id, xp_reward |-> CompletionBonus]

\* what `except Exception` makes of an HTTPException raised in the try
Swallowed(op, status, detail, id, day) ==
    [Reply(op, 500, detail, NoText, id, status) EXCEPT !.day = day]

\* POST /challenges/{challenge_id}/complete-day, the store answering every
\* call; with inOrder the callers complete day 1, then day 2, and so on
complete_challenge_day(days, inOrder) ==
    \E challenge_id \in ChallengeIds, day \in days :
        LET i == First(Challenges, LAMBDA c : c.id = challenge_id)
            op == "complete_challenge_day"
        IN  /\ UNCHANGED <<tracker, DEV_STORE>>
            /\ IF i = 0
               THEN /\ reply' = Swallowed(op, 404, "Challenge not found",
                                          challenge_id, day)
                    /\ UNCHANGED supabase
               ELSE IF Challenges[i].status # ACTIVE
               THEN /\ reply' = Swallowed(op, 400, "Challenge is not active",
                                          challenge_id, day)
                    /\ UNCHANGED supabase
               ELSE IF In(day, Challenges[i].completed_days)
               THEN /\ reply' = Swallowed(op, 400, "Day already completed",
                                          challenge_id, day)
                    /\ UNCHANGED supabase
               ELSE LET after == CompletedDay(Challenges[i], day, DateTime(today))
                    IN  /\ inOrder => day = Len(Challenges[i].completed_days) + 1
                        /\ supabase' = [supabase EXCEPT
                               !.identity_challenges[i] = after,
                               !.identity_milestones =
                                   IF IsComplete(after.completed_days)
                                   THEN Append(@, NewMilestone(Challenges[i]))
                                   ELSE @]
                        /\ reply' = [Reply(op, 200, "completed", NoText, challenge_id,
                                           xp_reward(Len(after.completed_days)))
                                     EXCEPT !.day = day]

\* two qualities of one user are in the table
InitChallenge ==
    /\ InitServer
    /\ today = 1
    /\ memory_db = [k \in {} |-> <<>>]
    /\ uuids = 0
    /\ result = Response("init", 0, 200, "")
    /\ DEV_STORE = [qualities |-> <<>>, evidence |-> <<>>, challenges |-> <<>>,
                    next_id |-> 1]
    /\ supabase = [identity_qualities |->
                       <<NewQuality(1, "u2", "brave", DefaultCategory),
                         NewQuality(2, "u2", "kind", DefaultCategory)>>,
                   identity_evidence |-> <<>>,
                   identity_challenges |-> <<>>, identity_milestones |-> <<>>,
                   row_order |-> <<1, 2>>]
    /\ reply = Reply("create_quality", 200, "db", "u2", 2, 0)

\* one challenge, its days completed in any order
NextChallenge ==
    \/ create_challenge(1)
    \/ complete_challenge_day(1..ChallengeDays, FALSE)

SpecChallenge == InitChallenge /\ [][NextChallenge]_vars

\* `day: int`: a day before the first, the first, and a day after the last
AnyDays == {0, 1, ChallengeDays + 1}

\* one challenge, called with days inside and outside the week
NextDays ==
    \/ create_challenge(1)
    \/ complete_challenge_day(AnyDays, FALSE)

SpecDays == InitChallenge /\ [][NextDays]_vars

\* record_evidence requests of one user served side by side
NextEvidence ==
    \/ evidence_check
    \/ evidence_insert
    \/ evidence_update

SpecEvidence == InitChallenge /\ [][NextEvidence]_vars

\* several challenges, one after another or side by side
NextActive ==
    \/ create_challenge(MaxChallenges)
    \/ complete_challenge_day(DayNumbers, TRUE)

SpecActive == InitChallenge /\ [][NextActive]_vars

(***************************************************************************)
(* Properties of the identity ledger                                       *)
(***************************************************************************)
\* every tracked quality, in the dev store or in the table
AllQualities == Qualities \o DbQualities
\* every evidence record
AllEvidence == DEV_STORE.evidence \o supabase.identity_evidence
\* the identity request just served
Replied(op, status) ==
    reply'.op = op /\ reply'.status = status /\ tracker' = tracker

\* old is the beginning of new
Prefix(old, new) ==
    /\ Len(old) <= Len(new)
    /\ \A i \in 1..Len(old) : new[i] = old[i]

\* C12: every tracked quality has 0 <= strength <= 100, whatever strengths and
\* impact scores the callers supply.
C12_StrengthInRange ==
    \A i \in 1..Len(AllQualities) :
        /\ ZeroStrength <= AllQualities[i].strength
        /\ AllQualities[i].strength <= FullStrength

\* C13: no user tracks two qualities of the same name, on the dev-store path,
\* the database path or the fallback of a failed insert.
C13_NameUnique ==
    \A i, k \in 1..Len(AllQualities) :
        (/\ AllQualities[i].user_id = AllQualities[k].user_id
         /\ AllQualities[i].quality_name = AllQualities[k].quality_name) => i = k

\* C14: no two active challenges share a user and a target quality;
\* create_challenge is refused while such a challenge is active, and a new
\* challenge is active, without completed days and with xp_earned 0.
C14_OneActive ==
    [][/\ \A i, k \in 1..Len(Challenges') :
            (/\ Challenges'[i].status = ACTIVE
             /\ Challenges'[k].status = ACTIVE
             /\ Challenges'[i].user_id = Challenges'[k].user_id
             /\ Challenges'[i].quality_target_id = Challenges'[k].quality_target_id)
                => i = k
       /\ (/\ reply'.op = "create_challenge"
           /\ tracker' = tracker
           /\ \E i \in 1..Len(Challenges) :
                  /\ Challenges[i].status = ACTIVE
                  /\ Challenges[i].user_id = reply'.user_id
                  /\ Challenges[i].quality_target_id = reply'.id)
            => reply'.status = 400 /\ Challenges' = Challenges
       /\ Replied("create_challenge", 200) =>
            /\ Len(Challenges') = Len(Challenges) + 1
            /\ Prefix(Challenges, Challenges')
            /\ Challenges'[Len(Challenges')].status = ACTIVE
            /\ Challenges'[Len(Challenges')].completed_days = <<>>
            /\ Challenges'[Len(Challenges')].xp_earned = 0]_vars

\* a second challenge on a quality whose first challenge is completed, and a
\* third one refused while the second is active
C14_Witness ==
    /\ Len(Challenges) = 2
    /\ Challenges[1].status = COMPLETED /\ Challenges[2].status = ACTIVE
    /\ Challenges[1].quality_target_id = Challenges[2].quality_target_id
    /\ reply.op = "create_challenge" /\ reply.status = 400

\* the challenge of this id, and its milestones
ChallengeIn(rows, id) == rows[First(rows, LAMBDA c : c.id = id)]
MilestonesOf(rows, id) == SelectSeq(rows, LAMBDA m : m.challenge_id = id)

\* C15: the complete_day call that brings a challenge to 7 completed days
\* completes it: status completed, completed_at set, the bonus of 100 added
\* once and one milestone stored; afterwards no call changes the challenge or
\* stores another milestone for it.
C15_CompletesOnce ==
    [][/\ Replied("complete_challenge_day", 200) =>
            LET before == ChallengeIn(Challenges, reply'.id)
                after  == ChallengeIn(Challenges', reply'.id)
                n      == Len(after.completed_days)
            IN  n = ChallengeDays =>
                    /\ after.status = COMPLETED
                    /\ after.completed_at # None
                    /\ after.xp_earned = before.xp_earned + (10 + n) + CompletionBonus
                    /\ Len(MilestonesOf(Milestones, reply'.id)) = 0
                    /\ Len(MilestonesOf(Milestones', reply'.id)) = 1
       /\ \A i \in 1..Len(Challenges) :
            Challenges[i].status = COMPLETED =>
                /\ Challenges'[i] = Challenges[i]
                /\ MilestonesOf(Milestones', Challenges[i].id) =
                       MilestonesOf(Milestones, Challenges[i].id)]_vars

\* a completed challenge with its one milestone has refused another day
C15_Witness ==
    /\ Len(Challenges) = 1 /\ Challenges[1].status = COMPLETED
    /\ Len(MilestonesOf(Milestones, 1)) = 1
    /\ reply.op = "complete_challenge_day" /\ reply.status = 500 /\ reply.id = 1

\* C16: complete_day on a challenge that is not active, or for a day that is
\* already completed, answers with that error (a 4xx, not an internal error)
\* and leaves the challenge as it was.
C16_SpecificError ==
    [][(/\ reply'.op = "complete_challenge_day"
        /\ tracker' = tracker
        /\ First(Challenges, LAMBDA c : c.id = reply'.id) # 0
        /\ \/ ChallengeIn(Challenges, reply'.id).status # ACTIVE
           \/ In(reply'.day, ChallengeIn(Challenges, reply'.id).completed_days))
        => /\ reply'.status = 400
           /\ Challenges' = Challenges]_vars

\* C17: a successful complete_day awards 10 + n xp, n the number of completed
\* days after the call, whatever the day; xp_earned grows by that, and by 100
\* more on the completing call; a challenge completed in 7 calls has 198 xp.
C17_XpAwarded ==
    [][Replied("complete_challenge_day", 200) =>
        LET before == ChallengeIn(Challenges, reply'.id)
            after  == ChallengeIn(Challenges', reply'.id)
            n      == Len(after.completed_days)
        IN  /\ n = Len(before.completed_days) + 1
            /\ reply'.value = 10 * (10 + n)
            /\ after.xp_earned = before.xp_earned + (10 + n)
                   + (IF n >= ChallengeDays THEN CompletionBonus ELSE 0)
            /\ after.status = COMPLETED => after.xp_earned = 198]_vars

\* a challenge completed from day 7 down to day 1 holds 198 xp
C17_Witness ==
    /\ Len(Challenges) = 1 /\ Challenges[1].status = COMPLETED
    /\ Challenges[1].completed_days = <<7, 6, 5, 4, 3, 2, 1>>
    /\ Challenges[1].xp_earned = 198
    /\ reply.op = "complete_challenge_day" /\ reply.status = 200

\* the quality a record_evidence call of this user and id is about: the dev
\* user's in the dev store, any other user's in the table
TargetIn(dev, db, user, id) ==
    IF user = DEV_USER
    THEN dev[First(dev, LAMBDA q : q.id = id)]
    ELSE db[First(db, LAMBDA q : q.id = id /\ q.user_id = user)]

\* C18: a successful record_evidence appends exactly one evidence record, adds
\* exactly 1 to the evidence_count of its quality and sets its last_evidence;
\* no request changes or removes an evidence record that is stored.
C18_EvidenceAppended ==
    [][/\ Prefix(DEV_STORE.evidence, DEV_STORE'.evidence)
       /\ Prefix(supabase.identity_evidence, supabase'.identity_evidence)
       /\ Replied("record_evidence", 200) =>
            LET before == TargetIn(Qualities, DbQualities, reply'.user_id, reply'.id)
                after  == TargetIn(Qualities', DbQualities', reply'.user_id, reply'.id)
            IN  /\ Len(AllEvidence') = Len(AllEvidence) + 1
                /\ after.evidence_count = before.evidence_count + 1
                /\ after.last_evidence # None]_vars

\* the second evidence record of a quality has just been stored and counted
C18_Witness ==
    /\ reply.op = "record_evidence" /\ reply.status = 200
    /\ Len(AllEvidence) = 2
    /\ TargetIn(Qualities, DbQualities, reply.user_id, reply.id).evidence_count = 2

\* a quality of this id that this user tracks
Owned(user, id) ==
    \E i \in 1..Len(AllQualities) :
        AllQualities[i].id = id /\ AllQualities[i].user_id = user

\* C19: record_evidence on a quality that does not exist or that the caller
\* does not own answers not-found and stores nothing, on the dev-store path as
\* on the database path.
C19_NotOwnedNotFound ==
    [][(/\ reply'.op = "record_evidence"
        /\ tracker' = tracker
        /\ ~Owned(reply'.user_id, reply'.id)) =>
            /\ reply'.status = 404
            /\ DEV_STORE' = DEV_STORE
            /\ supabase' = supabase]_vars

\* C20: growth_edge reports 'No qualities tracked' for a user without
\* qualities, and otherwise the user's weakest quality, the first inserted
\* among those of equal strength.
C20_GrowthEdge ==
    [][Replied("get_growth_edge", 200) =>
        LET mine == RowsOf(AllQualities, reply'.user_id)
        IN  IF mine = <<>>
            THEN reply'.id = 0 /\ reply'.detail = NoQualitiesTracked
            ELSE reply'.detail = mine[SortedFirst(mine)].quality_name]_vars

\* C21: the report on a quality of strength in 0..100 recommends focused
\* attention below 20, more challenge from 20 to below 50 and mastery from 50.
C21_Tiers ==
    [][(/\ Replied("get_growth_edge", 200)
        /\ reply'.id # 0
        /\ ZeroStrength <= reply'.value /\ reply'.value <= FullStrength) =>
            /\ reply'.value < 200 => reply'.tier = FOCUS
            /\ (200 <= reply'.value /\ reply'.value < 500) => reply'.tier = PROGRESS
            /\ reply'.value >= 500 => reply'.tier = MASTERY
            /\ FOCUS # PROGRESS /\ PROGRESS # MASTERY /\ FOCUS # MASTERY]_vars

\* the weakest quality has strength 15 and the report asks for focused attention
C21_Witness ==
    /\ reply.op = "get_growth_edge" /\ reply.value = 150 /\ reply.tier = FOCUS
    /\ \E i \in 1..Len(Qualities) : Qualities[i].strength = 500

C23_StatsPureRead ==
    [][(result'.op = "get_habit_stats" /\ ledger' = ledger) =>
        memory_db' = memory_db]_vars

\* C24: of the check-in requests for one habit that are served together on
\* one day, one passes the guard: the habit has one check-in record of today
\* and its counters have advanced by one check-in a day.
C24_OneWins ==
    \A id \in AllIds :
        Exists(id) =>
            /\ Len(SelectSeq(CheckInsOf(id),
                             LAMBDA ci : ci.check_in_date.ord = today)) <= 1
            /\ HabitOf(id).total_completions + HabitOf(id).missed_days <= today

\* C25: the completed_days of every challenge hold no day twice and only days
\* from 1 to 7.
C25_DaysInRange ==
    \A i \in 1..Len(Challenges) :
        LET days == Challenges[i].completed_days
        IN  /\ \A j, k \in 1..Len(days) : days[j] = days[k] => j = k
            /\ \A j \in 1..Len(days) : days[j] \in 1..ChallengeDays

\* the impact scores that are numbers
Scores == {i \in ImpactScores \cup {AutoImpact} : i # None}

\* C26: one rule on every path: for every strength a quality has and every
\* impact score, the dev-store path and the database path give the same new
\* strength, the habit path gives it too for its own impact score, and the new
\* strength lies between 0 and 100.
C26_OneRule ==
    \A k \in 1..Len(AllQualities), i \in Scores :
        LET old == AllQualities[k].strength
            dev == RaisedStrength(old, DevStrengthIncrease(i))
            db  == RaisedStrength(old, DbStrengthIncrease(i))
        IN  /\ dev = db
            /\ i = AutoImpact => RaisedStrength(old, AutoStrengthIncrease) = db
            /\ ZeroStrength <= db /\ db <= FullStrength

\* the strength increases of a list of evidence records, added up
RECURSIVE Increases(_)
Increases(evidence) ==
    IF evidence = <<>> THEN 0
    ELSE DbStrengthIncrease(Head(evidence).impact_score) + Increases(Tail(evidence))

\* C27: record_evidence requests served side by side on the database path
\* lose no update: once all are answered, the evidence_count of a quality is
\* the number of its evidence records and its strength holds all their
\* increases, up to 100.
C27_NoLostUpdate ==
    (\A w \in Workers : inflight[w].pc = "idle") =>
        \A k \in 1..Len(DbQualities) :
            LET evidence == SelectSeq(supabase.identity_evidence,
                                      LAMBDA e : e.quality_id = DbQualities[k].id)
            IN  /\ DbQualities[k].evidence_count = Len(evidence)
                /\ DbQualities[k].strength = Min(FullStrength, Increases(evidence))

C29_CountersMatchRecords ==
    \A k \in 1..Len(Habits) :
        LET records == CheckInsOf(Habits[k].id) IN
        /\ Habits[k].total_completions + Habits[k].missed_days = Len(records)
        /\ Habits[k].total_completions =
               Len(SelectSeq(records, LAMBDA ci : ci.completed))

\* a habit with a completed and a missed check-in on record
C29_Witness ==
    \E k \in 1..Len(Habits) :
        /\ Habits[k].total_completions >= 1
        /\ Habits[k].missed_days >= 1
        /\ Len(CheckInsOf(Habits[k].id)) = MaxCheckIns

\* the active cards of a user
ActiveCardsIn(cs, user) ==
    {k \in 1..Len(cs) : cs[k].user_id = user /\ cs[k].status = ACTIVE_CARD}

ActiveCards(user) == ActiveCardsIn(cards, user)

\* C30: after any create_card and update_card calls a user has at most one
\* active card: setting a card to active sets every other active card of that
\* user to queued, and no call changes a card of another user.
C30_OneActiveCard ==
    /\ [](\A user \in CardUsers : Cardinality(ActiveCards(user)) <= 1)
    /\ [][/\ \A k \in 1..Len(cards) :
                 cards[k].user_id # reply'.user_id => cards'[k] = cards[k]
          /\ reply'.status = 200 /\ reply'.detail = ACTIVE_CARD =>
                 /\ ActiveCardsIn(cards', reply'.user_id) = {reply'.id}
                 /\ \A k \in ActiveCards(reply'.user_id) \ {reply'.id} :
                        cards'[k].status = QUEUED]_vars

\* the test user's active card was replaced by another one while a second
\* user holds an active card
C30_Witness ==
    /\ reply.op = "update_card" /\ reply.status = 200 /\ reply.detail = ACTIVE_CARD
    /\ reply.user_id = TEST_USER /\ reply.id # 1
    /\ cards[1].status = QUEUED
    /\ ActiveCards(TEST_USER) = {reply.id}
    /\ ActiveCards("u2") # {}
====
